---- MODULE Spec2Model ----
(***************************************************************************)
(* Model of video_subtitle_pipeline.py: the stage gate of download_video   *)
(* and extract_audio, the timestamp formatter, the two subtitle writers    *)
(* (save_subtitles and the inline native writer of main), the translation  *)
(* fan-out translate_and_save, and the stage sequence of main().           *)
(*                                                                         *)
(* Text is a sequence of one-character strings.  A file is a sequence of   *)
(* lines (each line without its terminating "\n"), or NoFile when the      *)
(* path does not exist.  A float number of seconds is an integer count of  *)
(* ticks, one tick being a tenth of a millisecond.                         *)
(***************************************************************************)
EXTENDS Integers, Sequences, FiniteSets, TLC

VARIABLES
    cfg,        \* the USER SETTINGS: SAVE_AUDIO, SAVE_ZH_SUB, SAVE_EN_SUB, SAVE_LANGS
    files,      \* the filesystem: path -> NoFile or the file's lines
    start,      \* the filesystem as the current run of main() found it
    pc,         \* position of main(), or of the single call of a writer
    li,         \* index of the next item of SAVE_LANGS.items() in main's loop
    speech,     \* the transcript Whisper returns for this video when it does not fail
    segments,   \* the segment list held in memory by main (or handed to a writer)
    stages,     \* stages entered by the current run, in order
    written,    \* caption paths opened for writing by the current run
    calls,      \* per-run invocation counts of yt-dlp, ffmpeg and Whisper
    trCalls,    \* translation engine calls of the current run, in order
    last,       \* the arguments and outcome of the latest writer call
    execs,      \* successful tool executions per artifact since it last did not exist
    failure,    \* the exception that ended the current run (or writer call), or "none"
    run,        \* number of the current run of main()
    prev        \* how the previous run of main() ended: "done", "failed", or "none"

vars == <<cfg, files, start, speech, pc, li, segments, stages, written, calls, trCalls,
          last, execs, failure, run, prev>>

----------------------------------------------------------------------------
(* Bounds *)

MaxSegs == 2
MaxLangs == 2
MaxRuns == 2
\* timestamp inputs around each base, in ticks
MaxDelta == 12

----------------------------------------------------------------------------
(* File names, lines 44-51 (PROJECT_NAME = "my_video") *)

VIDEO_NAME == "my_video.mp4"
AUDIO_NAME == "my_video_audio.wav"
ZH_SUB == "my_video_zh.srt"
EN_SUB == "my_video_en.srt"
RU_SUB == "my_video_ru.srt"
FR_SUB == "my_video_fr.srt"
ES_SUB == "my_video_es.srt"
DE_SUB == "my_video_de.srt"

CaptionFiles == {ZH_SUB, EN_SUB, RU_SUB, FR_SUB, ES_SUB, DE_SUB}
Paths == {VIDEO_NAME, AUDIO_NAME} \cup CaptionFiles

NoFile == <<"<no file>">>
MediaData == <<"<media>">>
OldContent == <<<<"9">>, <<"o", "l", "d">>>>

exists(path) == files[path] # NoFile

\* lang_map of main, lines 151-156: code -> caption file
lang_map == [ru |-> RU_SUB, fr |-> FR_SUB, es |-> ES_SUB, de |-> DE_SUB]

----------------------------------------------------------------------------
(* Text helpers *)

IsSpace(c) == c = " "

RECURSIVE lstrip(_)
lstrip(s) == IF s # <<>> /\ IsSpace(Head(s)) THEN lstrip(Tail(s)) ELSE s

RECURSIVE rstrip(_)
rstrip(s) ==
    IF s # <<>> /\ IsSpace(s[Len(s)]) THEN rstrip(SubSeq(s, 1, Len(s) - 1)) ELSE s

\* str.strip()
strip(s) == rstrip(lstrip(s))

DigitChar(d) == <<"0", "1", "2", "3", "4", "5", "6", "7", "8", "9">>[d + 1]

\* str(n) for a natural number n
RECURSIVE Digits(_)
Digits(n) == IF n < 10 THEN <<DigitChar(n)>> ELSE Digits(n \div 10) \o <<DigitChar(n % 10)>>

\* zero padding on the left up to width w (format spec 0w)
RECURSIVE ZeroPad(_, _)
ZeroPad(s, w) == IF Len(s) >= w THEN s ELSE ZeroPad(<<"0">> \o s, w)

----------------------------------------------------------------------------
(* timestamp, lines 56-61 *)

TicksPerMs == 10
TicksPerSec == 10000

\* a count of ticks exactly half way between two milliseconds
IsTie(sTicks) == sTicks % TicksPerMs = TicksPerMs \div 2

\* the fraction cut off after the third decimal
RoundMs_floor(sTicks, tieUp) == sTicks \div TicksPerMs

\* the milliseconds ".3f" prints: the nearest to the float's value; for a decimal
\* half way between two milliseconds the float lies on either side of it
\* (0.0005 prints as 0.001, 1.0005 as 1.000), which tieUp tells
RoundMs(sTicks, tieUp) ==
    IF IsTie(sTicks) /\ ~tieUp THEN sTicks \div TicksPerMs
    ELSE (sTicks + (TicksPerMs \div 2)) \div TicksPerMs

\* "{s:06.3f}": s rounded to three decimals (to the nearest millisecond),
\* the integer part zero padded so that the whole field has at least 6 characters
Fixed3(sTicks, tieUp) ==
    LET ms == RoundMs(sTicks, tieUp)
    IN  ZeroPad(Digits(ms \div 1000), 2) \o <<".">> \o ZeroPad(Digits(ms % 1000), 3)

\* "{n:02}" of an integer: the sign counts in the width of 2
Pad02(n) == IF n >= 0 THEN ZeroPad(Digits(n), 2) ELSE <<"-">> \o Digits(0 - n)

\* str.replace without effect
Replace_none(s, from, to) == s

Replace(s, from, to) == [i \in 1..Len(s) |-> IF s[i] = from THEN to ELSE s[i]]

\* lines 58-61; // and % of Python floor like \div and % here, also below zero
Stamp(sec, tieUp) ==
    LET h == sec \div (3600 * TicksPerSec)
        m == (sec % (3600 * TicksPerSec)) \div (60 * TicksPerSec)
        s == sec % (60 * TicksPerSec)
    IN  Replace(Pad02(h) \o <<":">> \o Pad02(m) \o <<":">> \o Fixed3(s, tieUp), ".", ",")

\* timestamp of a time that is no tie (every segment boundary below)
timestamp(sec) == Stamp(sec, TRUE)

Arrow == <<" ", "-", "-", ">", " ">>

\* f"{timestamp(seg['start'])} --> {timestamp(seg['end'])}"
TimeLine(seg) == timestamp(seg.start) \o Arrow \o timestamp(seg.end)

----------------------------------------------------------------------------
(* Segments: dicts with the keys start, end and, optionally, text and     *)
(* original_text (main reads both with .get, line 138).                   *)

Has(seg, key) == key \in DOMAIN seg

\* dict.get(key, default)
Get(seg, key, default) == IF Has(seg, key) THEN seg[key] ELSE default

\* segment boundaries in ticks: 0 s, 1.5 s, 59.9996 s, 3661.25 s, then hourly
Boundary(k) ==
    LET known == <<0, 15000, 599996, 36612500>>
    IN  IF k <= Len(known) THEN known[k] ELSE 36612500 + (k - Len(known)) * 36000000

SegKinds == {"text", "both", "original", "neither"}

\* the k-th segment of a transcript, with the text fields its kind carries
MkSeg(k, kind) ==
    CASE kind = "text" ->
            [start |-> Boundary(k), end |-> Boundary(k + 1), text |-> <<" ", "b", " ">>]
      [] kind = "both" ->
            [start |-> Boundary(k), end |-> Boundary(k + 1), text |-> <<"a", " ", "c">>,
             original_text |-> <<"z", " ">>]
      [] kind = "original" ->
            [start |-> Boundary(k), end |-> Boundary(k + 1), original_text |-> <<" ", "y">>]
      [] OTHER ->
            [start |-> Boundary(k), end |-> Boundary(k + 1)]

\* the kinds main's fallback chain of line 138 distinguishes
RecognizedKinds == {"text", "both", "neither"}

\* every transcript of at most MaxSegs chronological segments of the given kinds
Transcripts(kindSet) ==
    UNION {{[k \in 1..n |-> MkSeg(k, kinds[k])] : kinds \in [1..n -> kindSet]} : n \in 0..MaxSegs}

----------------------------------------------------------------------------
(* save_subtitles, lines 93-101 *)

\* the loop of lines 97-100 from segment i on; acc is what was written so far.
\* seg[text_key] raises KeyError after the index and time lines of its block.
RECURSIVE SaveLoop(_, _, _, _)
SaveLoop(segs, i, text_key, acc) ==
    IF i > Len(segs) THEN [raised |-> FALSE, content |-> acc]
    ELSE LET seg == segs[i]
             head == acc \o <<Digits(i), TimeLine(seg)>>
         IN  IF ~Has(seg, text_key) THEN [raised |-> TRUE, content |-> head]
             ELSE SaveLoop(segs, i + 1, text_key, head \o <<strip(seg[text_key]), <<>>>>)

\* open(filename, "a"): what the file held is kept
open_a(old) == IF old = NoFile THEN <<>> ELSE old

\* open(filename, "w"), line 96: the file is created or truncated, whatever it held
open_w(old) == <<>>

\* the file after the call, old being what it held before (NoFile: nothing);
\* the with-block closes the file also on an exception
save_subtitles(old, segs, text_key) == SaveLoop(segs, 1, text_key, open_w(old))

----------------------------------------------------------------------------
(* the native (Chinese) writer of main, lines 134-139 *)

\* the native text taken from the primary (English) field alone
zh_text_primary(seg) == strip(Get(seg, "text", <<>>))

zh_text(seg) == strip(Get(seg, "original_text", Get(seg, "text", <<>>)))

RECURSIVE NativeLoop(_, _, _)
NativeLoop(segs, i, acc) ==
    IF i > Len(segs) THEN acc
    ELSE NativeLoop(segs, i + 1,
                    acc \o <<Digits(i), TimeLine(segs[i]), zh_text(segs[i]), <<>>>>)

write_native(old, segs) == NativeLoop(segs, 1, open_w(old))

----------------------------------------------------------------------------
(* translate_and_save, lines 104-114 *)

\* argtr.translate(text, from, to): the engine's answer, an opaque text
\* determined by its three arguments
translate(text, from, to) == <<from, ">", to, ":">> \o text

\* the loop of lines 108-111 from 0-based position i on; the engine raises on
\* its failAt-th call (0: never); seg["text"] raises KeyError before the call
RECURSIVE TranslateLoop(_, _, _, _, _, _, _)
TranslateLoop(segs, i, src_lang, dst_lang, failAt, log, out_blocks) ==
    IF i >= Len(segs) THEN [raised |-> FALSE, log |-> log, out_blocks |-> out_blocks]
    ELSE LET seg == segs[i + 1]
         IN  IF ~Has(seg, "text")
             THEN [raised |-> TRUE, log |-> log, out_blocks |-> out_blocks]
             ELSE LET en_text == strip(seg.text)
                      log2 == Append(log, [text |-> en_text, src |-> src_lang,
                                           dst |-> dst_lang])
                  IN  IF Len(log2) = failAt
                      THEN [raised |-> TRUE, log |-> log2, out_blocks |-> out_blocks]
                      ELSE TranslateLoop(segs, i + 1, src_lang, dst_lang, failAt, log2,
                               out_blocks \o <<Digits(i + 1), TimeLine(seg),
                                               translate(en_text, src_lang, dst_lang),
                                               <<>>>>)

\* the loop entered one position late, the first segment left out
translate_and_save_from1(segs, src_lang, dst_lang, failAt) ==
    TranslateLoop(segs, 1, src_lang, dst_lang, failAt, <<>>, <<>>)

\* the file opened before the loop, each block written as soon as it is translated
translated_file_streamed(old, r) == open_w(old) \o r.out_blocks

\* lines 112-113: the target file after the call, r being the loop's result and
\* old what the file held; line 112 is reached only if nothing raised
translated_file(old, r) == IF r.raised THEN old ELSE open_w(old) \o r.out_blocks

\* the result of the loop
translate_and_save(segs, src_lang, dst_lang, failAt) ==
    TranslateLoop(segs, 0, src_lang, dst_lang, failAt, <<>>, <<>>)

----------------------------------------------------------------------------
(* USER SETTINGS, lines 31-41 *)

\* language codes a configuration may name; "it" has no entry in lang_map
LangCodes == {"ru", "fr", "it"}

Distinct(seq) == \A i, j \in 1..Len(seq) : i # j => seq[i].code # seq[j].code

\* SAVE_LANGS.items(): (code, enabled) pairs in configuration order, codes distinct
LangConfigs ==
    UNION {{l \in [1..n -> [code : LangCodes, enabled : BOOLEAN]] : Distinct(l)} :
           n \in 0..MaxLangs}

Configs ==
    [SAVE_AUDIO : BOOLEAN, SAVE_ZH_SUB : BOOLEAN, SAVE_EN_SUB : BOOLEAN,
     SAVE_LANGS : LangConfigs]

\* the filesystems a run may start from: video and audio present or not,
\* caption files all absent or all left over from an earlier use
InitialFiles ==
    {[p \in Paths |-> IF p = VIDEO_NAME THEN v ELSE IF p = AUDIO_NAME THEN a ELSE c] :
        v \in {NoFile, MediaData}, a \in {NoFile, MediaData}, c \in {NoFile, OldContent}}

Stage(name, lang) == [name |-> name, lang |-> lang]

NoCalls == [ytdlp |-> 0, ffmpeg |-> 0, whisper |-> 0]
NoLast == [fn |-> "none", file |-> "", key |-> "", dst |-> "", raised |-> FALSE,
           log |-> <<>>, before |-> NoFile]

Init ==
    /\ cfg \in Configs
    /\ files \in InitialFiles
    /\ start = files
    /\ speech \in Transcripts(RecognizedKinds)
    /\ pc = "download"
    /\ li = 1
    /\ segments = <<>>
    /\ stages = <<>>
    /\ written = {}
    /\ calls = NoCalls
    /\ trCalls = <<>>
    /\ last = NoLast
    /\ execs = [a \in {VIDEO_NAME, AUDIO_NAME} |-> 0]
    /\ failure = "none"
    /\ run = 1
    /\ prev = "none"

\* an exception that is reported and then passed over, main going on to its last step
Fail_continue(exc) == pc' = "cleanup" /\ failure' = exc

\* an uncaught exception ends main
Fail(exc) == pc' = "failed" /\ failure' = exc

----------------------------------------------------------------------------
(* download_video, lines 64-71, called at line 121 *)

\* download_video without its check of line 66
download_gate_off == FALSE

\* the stage gate of line 66
download_gate == exists(VIDEO_NAME)

download_video ==
    /\ pc = "download"
    /\ stages' = Append(stages, Stage("DOWNLOAD", ""))
    /\ \/ /\ download_gate
          /\ pc' = "extract"
          /\ UNCHANGED <<files, calls, execs, failure>>
       \/ /\ ~download_gate
          /\ calls' = [calls EXCEPT !.ytdlp = @ + 1]
          /\ \/ /\ files' = [files EXCEPT ![VIDEO_NAME] = MediaData]
                /\ execs' = [execs EXCEPT ![VIDEO_NAME] = @ + 1]
                /\ pc' = "extract"
                /\ UNCHANGED failure
             \/ /\ Fail("DownloadError")   \* check=True: CalledProcessError
                /\ UNCHANGED <<files, execs>>
    /\ UNCHANGED <<cfg, prev, start, speech, li, segments, written, trCalls, last, run>>

----------------------------------------------------------------------------
(* extract_audio, lines 74-81, called at lines 123-126 *)

\* the stage gate of line 76
extract_gate == exists(AUDIO_NAME)

extract_audio ==
    /\ pc = "extract"
    /\ \/ /\ ~cfg.SAVE_AUDIO
          /\ pc' = "recognize"
          /\ UNCHANGED <<files, calls, execs, failure, stages>>
       \/ /\ cfg.SAVE_AUDIO
          /\ stages' = Append(stages, Stage("EXTRACT_AUDIO", ""))
          /\ \/ /\ extract_gate
                /\ pc' = "recognize"
                /\ UNCHANGED <<files, calls, execs, failure>>
             \/ /\ ~extract_gate
                /\ calls' = [calls EXCEPT !.ffmpeg = @ + 1]
                /\ \/ /\ files' = [files EXCEPT ![AUDIO_NAME] = MediaData]
                      /\ execs' = [execs EXCEPT ![AUDIO_NAME] = @ + 1]
                      /\ pc' = "recognize"
                      /\ UNCHANGED failure
                   \/ /\ Fail("ExtractionError")
                      /\ UNCHANGED <<files, execs>>
    /\ UNCHANGED <<cfg, prev, start, speech, li, segments, written, trCalls, last, run>>

----------------------------------------------------------------------------
(* recognize_and_translate_en, lines 84-90, called at line 129 *)

\* recognize_and_translate_en returning no segments when Whisper raises
recognize_swallow ==
    /\ pc = "recognize"
    /\ stages' = Append(stages, Stage("RECOGNIZE_TRANSLATE", ""))
    /\ calls' = [calls EXCEPT !.whisper = @ + 1]
    /\ \/ /\ segments' = speech
          /\ UNCHANGED failure
       \/ /\ segments' = <<>>
          /\ failure' = "RecognitionError"
    /\ pc' = "zh"
    /\ UNCHANGED <<cfg, prev, start, speech, files, li, written, trCalls, last, execs, run>>

\* model.transcribe(AUDIO_NAME, ...) decodes the file at that path and raises
\* if there is none; it may raise on a file that is there as well
recognize_and_translate_en ==
    /\ pc = "recognize"
    /\ stages' = Append(stages, Stage("RECOGNIZE_TRANSLATE", ""))
    /\ calls' = [calls EXCEPT !.whisper = @ + 1]
    /\ \/ /\ exists(AUDIO_NAME)
          /\ segments' = speech          \* result["segments"]
          /\ pc' = "zh"
          /\ UNCHANGED failure
       \/ /\ Fail("RecognitionError")
          /\ UNCHANGED segments
    /\ UNCHANGED <<cfg, prev, start, speech, files, li, written, trCalls, last, execs, run>>

----------------------------------------------------------------------------
(* main, lines 131-170 *)

\* Step 2 behind a stage gate: an existing native caption file is kept
write_zh_gated ==
    /\ pc = "zh"
    /\ \/ /\ cfg.SAVE_ZH_SUB /\ ~exists(ZH_SUB)
          /\ stages' = Append(stages, Stage("WRITE_NATIVE_CAPTIONS", "zh"))
          /\ files' = [files EXCEPT ![ZH_SUB] = write_native(files[ZH_SUB], segments)]
          /\ written' = written \cup {ZH_SUB}
       \/ /\ ~(cfg.SAVE_ZH_SUB /\ ~exists(ZH_SUB))
          /\ UNCHANGED <<stages, files, written>>
    /\ pc' = "en"
    /\ UNCHANGED <<cfg, prev, start, speech, li, segments, calls, trCalls, last, execs, failure, run>>

\* Step 2, lines 132-142
write_zh ==
    /\ pc = "zh"
    /\ \/ /\ cfg.SAVE_ZH_SUB
          /\ stages' = Append(stages, Stage("WRITE_NATIVE_CAPTIONS", "zh"))
          /\ files' = [files EXCEPT ![ZH_SUB] = write_native(files[ZH_SUB], segments)]
          /\ written' = written \cup {ZH_SUB}
       \/ /\ ~cfg.SAVE_ZH_SUB
          /\ UNCHANGED <<stages, files, written>>
    /\ pc' = "en"
    /\ UNCHANGED <<cfg, prev, start, speech, li, segments, calls, trCalls, last, execs, failure, run>>

\* the loop of line 158 left after its first item
LoopFrom_once(i) == "cleanup"

\* where main goes once the items of SAVE_LANGS before position i are done
LoopFrom(i) == IF i > Len(cfg.SAVE_LANGS) THEN "cleanup" ELSE "langs"

\* Step 3, lines 145-148
write_en ==
    /\ pc = "en"
    /\ \/ /\ cfg.SAVE_EN_SUB
          /\ stages' = Append(stages, Stage("WRITE_PRIMARY_CAPTIONS", "en"))
          /\ LET r == save_subtitles(files[EN_SUB], segments, "text")
             IN  /\ files' = [files EXCEPT ![EN_SUB] = r.content]
                 /\ written' = written \cup {EN_SUB}
                 /\ IF r.raised THEN Fail("KeyError")
                    ELSE pc' = LoopFrom(1) /\ UNCHANGED failure
       \/ /\ ~cfg.SAVE_EN_SUB
          /\ pc' = LoopFrom(1)
          /\ UNCHANGED <<stages, files, written, failure>>
    /\ UNCHANGED <<cfg, prev, start, speech, li, segments, calls, trCalls, last, execs, run>>

\* the loop of line 158 without its test of the flag
Skipped_never(item) == FALSE

\* "if not enabled", line 159
Skipped(item) == ~item.enabled

\* Step 4 with a failed language passed over: the loop goes on to the next item
write_lang_isolated ==
    /\ pc = "langs"
    /\ LET code == cfg.SAVE_LANGS[li].code
           enabled == ~Skipped(cfg.SAVE_LANGS[li])
       IN  \/ /\ ~enabled
              /\ UNCHANGED <<stages, files, written, trCalls, failure>>
           \/ /\ enabled
              /\ code \notin DOMAIN lang_map
              /\ failure' = "KeyError"
              /\ UNCHANGED <<stages, files, written, trCalls>>
           \/ /\ enabled
              /\ code \in DOMAIN lang_map
              /\ stages' = Append(stages, Stage("WRITE_TRANSLATED_CAPTIONS", code))
              /\ \E failAt \in 0..Len(segments) :
                    LET r == translate_and_save(segments, "en", code, failAt)
                    IN  /\ trCalls' = trCalls \o r.log
                        /\ IF r.raised
                           THEN /\ failure' = (IF Len(r.log) = failAt /\ failAt > 0
                                               THEN "TranslationError" ELSE "KeyError")
                                /\ UNCHANGED <<files, written>>
                           ELSE /\ files' = [files EXCEPT
                                               ![lang_map[code]] = open_w(@) \o r.out_blocks]
                                /\ written' = written \cup {lang_map[code]}
                                /\ UNCHANGED failure
    /\ li' = li + 1
    /\ pc' = LoopFrom(li + 1)
    /\ UNCHANGED <<cfg, prev, start, speech, segments, calls, last, execs, run>>

\* Step 4, one iteration of the loop of lines 158-163
write_lang ==
    /\ pc = "langs"
    /\ LET code == cfg.SAVE_LANGS[li].code
           enabled == ~Skipped(cfg.SAVE_LANGS[li])
       IN  \/ /\ ~enabled
              /\ li' = li + 1
              /\ pc' = LoopFrom(li + 1)
              /\ UNCHANGED <<stages, files, written, trCalls, failure>>
           \/ /\ enabled
              /\ code \notin DOMAIN lang_map      \* lang_map[code], line 162
              /\ Fail("KeyError")
              /\ UNCHANGED <<li, stages, files, written, trCalls>>
           \/ /\ enabled
              /\ code \in DOMAIN lang_map
              /\ stages' = Append(stages, Stage("WRITE_TRANSLATED_CAPTIONS", code))
              /\ \E failAt \in 0..Len(segments) :
                    LET r == translate_and_save(segments, "en", code, failAt)
                    IN  /\ trCalls' = trCalls \o r.log
                        /\ files' = [files EXCEPT ![lang_map[code]] = translated_file(@, r)]
                        /\ IF r.raised
                           THEN /\ Fail(IF Len(r.log) = failAt /\ failAt > 0
                                        THEN "TranslationError" ELSE "KeyError")
                                /\ UNCHANGED <<li, written>>
                           ELSE /\ written' = written \cup {lang_map[code]}
                                /\ li' = li + 1
                                /\ pc' = LoopFrom(li + 1)
                                /\ UNCHANGED failure
    /\ UNCHANGED <<cfg, prev, start, speech, segments, calls, last, execs, run>>

\* Step 5 and the final message, lines 166-170
\* the audio file removed whenever it is there
cleanup_due_any == exists(AUDIO_NAME)

\* the condition of line 166
cleanup_due == ~cfg.SAVE_AUDIO /\ exists(AUDIO_NAME)

cleanup_audio ==
    /\ pc = "cleanup"
    /\ \/ /\ cleanup_due
          /\ files' = [files EXCEPT ![AUDIO_NAME] = NoFile]
          /\ execs' = [execs EXCEPT ![AUDIO_NAME] = 0]
          /\ stages' = stages \o <<Stage("CLEANUP_AUDIO", ""), Stage("DONE", "")>>
       \/ /\ ~cleanup_due
          /\ stages' = Append(stages, Stage("DONE", ""))
          /\ UNCHANGED <<files, execs>>
    /\ pc' = "done"
    /\ UNCHANGED <<cfg, prev, start, speech, li, segments, written, calls, trCalls, last, failure, run>>

\* the script is started again (line 173) on the files the previous run left
rerun ==
    /\ pc \in {"done", "failed"}
    /\ run < MaxRuns
    /\ run' = run + 1
    /\ prev' = pc
    /\ pc' = "download"
    /\ li' = 1
    /\ segments' = <<>>
    /\ stages' = <<>>
    /\ written' = {}
    /\ calls' = NoCalls
    /\ trCalls' = <<>>
    /\ failure' = "none"
    /\ start' = files
    /\ UNCHANGED <<cfg, speech, files, last, execs>>

Next ==
    \/ download_video
    \/ extract_audio
    \/ recognize_and_translate_en
    \/ write_zh
    \/ write_en
    \/ write_lang
    \/ cleanup_audio

Spec == Init /\ [][Next]_vars

\* runs of main() one after another, the first in a directory without captions,
\* on a video whose segments all carry the text field Whisper gives them
InitRerun ==
    /\ Init
    /\ \A f \in CaptionFiles : files[f] = NoFile
    /\ speech \in Transcripts({"text", "both"})

NextRerun == Next \/ rerun

SpecRerun == InitRerun /\ [][NextRerun]_vars

----------------------------------------------------------------------------
(* The writers called on their own: one call of save_subtitles or of       *)
(* translate_and_save on any segment list, over any previous file.         *)

InitWriter ==
    /\ cfg = [SAVE_AUDIO |-> TRUE, SAVE_ZH_SUB |-> TRUE, SAVE_EN_SUB |-> TRUE,
              SAVE_LANGS |-> <<>>]
    /\ files \in {f \in InitialFiles : f[VIDEO_NAME] = NoFile /\ f[AUDIO_NAME] = NoFile}
    /\ start = files
    /\ speech = <<>>
    /\ segments \in Transcripts(SegKinds)
    /\ pc = "call"
    /\ li = 1
    /\ stages = <<>>
    /\ written = {}
    /\ calls = NoCalls
    /\ trCalls = <<>>
    /\ last = NoLast
    /\ execs = [a \in {VIDEO_NAME, AUDIO_NAME} |-> 0]
    /\ failure = "none"
    /\ run = 1
    /\ prev = "none"

\* save_subtitles(segments, filename, text_key, lang_label), lines 93-101
call_save_subtitles ==
    /\ pc = "call"
    /\ \E filename \in {ZH_SUB, EN_SUB}, text_key \in {"text", "original_text"} :
          LET r == save_subtitles(files[filename], segments, text_key)
          IN  /\ files' = [files EXCEPT ![filename] = r.content]
              /\ written' = written \cup {filename}
              /\ last' = [fn |-> "save_subtitles", file |-> filename, key |-> text_key,
                          dst |-> "", raised |-> r.raised, log |-> <<>>,
                          before |-> files[filename]]
              /\ pc' = IF r.raised THEN "raised" ELSE "returned"
              /\ failure' = IF r.raised THEN "KeyError" ELSE "none"
    /\ UNCHANGED <<cfg, prev, start, speech, li, segments, stages, calls, trCalls, execs, run>>

\* translate_and_save(segments, src_lang, dst_lang, filename, lang_label), lines 104-114
call_translate_and_save ==
    /\ pc = "call"
    /\ \E dst_lang \in DOMAIN lang_map, failAt \in 0..Len(segments) :
          LET r == translate_and_save(segments, "en", dst_lang, failAt)
              filename == lang_map[dst_lang]
          IN  /\ files' = [files EXCEPT ![filename] = translated_file(@, r)]
              /\ written' = IF r.raised THEN written ELSE written \cup {filename}
              /\ trCalls' = r.log
              /\ last' = [fn |-> "translate_and_save", file |-> filename, key |-> "text",
                          dst |-> dst_lang, raised |-> r.raised, log |-> r.log,
                          before |-> files[filename]]
              /\ pc' = IF r.raised THEN "raised" ELSE "returned"
              /\ failure' = IF ~r.raised THEN "none"
                            ELSE IF Len(r.log) = failAt /\ failAt > 0
                                 THEN "TranslationError" ELSE "KeyError"
    /\ UNCHANGED <<cfg, prev, start, speech, li, segments, stages, calls, execs, run>>

NextWriter == call_save_subtitles \/ call_translate_and_save

SpecWriter == InitWriter /\ [][NextWriter]_vars

----------------------------------------------------------------------------
(* Stage order *)

\* position of a language code in SAVE_LANGS.items()
Position(code) == CHOOSE i \in 1..Len(cfg.SAVE_LANGS) : cfg.SAVE_LANGS[i].code = code

NLangs == Len(cfg.SAVE_LANGS)

Rank(st) ==
    CASE st.name = "DOWNLOAD" -> 1
      [] st.name = "EXTRACT_AUDIO" -> 2
      [] st.name = "RECOGNIZE_TRANSLATE" -> 3
      [] st.name = "WRITE_NATIVE_CAPTIONS" -> 4
      [] st.name = "WRITE_PRIMARY_CAPTIONS" -> 5
      [] st.name = "WRITE_TRANSLATED_CAPTIONS" -> 5 + Position(st.lang)
      [] st.name = "CLEANUP_AUDIO" -> 6 + NLangs
      [] st.name = "DONE" -> 7 + NLangs

\* whether the configuration enables a stage
Enabled(st) ==
    CASE st.name = "EXTRACT_AUDIO" -> cfg.SAVE_AUDIO
      [] st.name = "WRITE_NATIVE_CAPTIONS" -> cfg.SAVE_ZH_SUB
      [] st.name = "WRITE_PRIMARY_CAPTIONS" -> cfg.SAVE_EN_SUB
      [] st.name = "WRITE_TRANSLATED_CAPTIONS" ->
            \E i \in 1..NLangs : cfg.SAVE_LANGS[i].code = st.lang /\ cfg.SAVE_LANGS[i].enabled
      [] st.name = "CLEANUP_AUDIO" -> ~cfg.SAVE_AUDIO
      [] OTHER -> TRUE

RECURSIVE TranslatedStages(_)
TranslatedStages(i) ==
    IF i > NLangs THEN <<>>
    ELSE (IF cfg.SAVE_LANGS[i].enabled
          THEN <<Stage("WRITE_TRANSLATED_CAPTIONS", cfg.SAVE_LANGS[i].code)>> ELSE <<>>)
         \o TranslatedStages(i + 1)

\* the stages of a completed run, CLEANUP_AUDIO left out
ExpectedStages ==
    <<Stage("DOWNLOAD", "")>>
    \o (IF cfg.SAVE_AUDIO THEN <<Stage("EXTRACT_AUDIO", "")>> ELSE <<>>)
    \o <<Stage("RECOGNIZE_TRANSLATE", "")>>
    \o (IF cfg.SAVE_ZH_SUB THEN <<Stage("WRITE_NATIVE_CAPTIONS", "zh")>> ELSE <<>>)
    \o (IF cfg.SAVE_EN_SUB THEN <<Stage("WRITE_PRIMARY_CAPTIONS", "en")>> ELSE <<>>)
    \o TranslatedStages(1)
    \o <<Stage("DONE", "")>>

StageNames(seq) == {seq[i].name : i \in 1..Len(seq)}

\* C1: in every run the stages entered so far are in the fixed order DOWNLOAD,
\* EXTRACT_AUDIO, RECOGNIZE_TRANSLATE, WRITE_NATIVE_CAPTIONS, WRITE_PRIMARY_CAPTIONS,
\* WRITE_TRANSLATED_CAPTIONS per language in configuration order, CLEANUP_AUDIO,
\* DONE, each at most once (ranks strictly increase); a conditional stage is entered
\* only if enabled; and a run that reaches DONE has entered exactly the enabled
\* stages, one WRITE_TRANSLATED_CAPTIONS per enabled language.
C1_StageOrder ==
    /\ \A i, j \in 1..Len(stages) : i < j => Rank(stages[i]) < Rank(stages[j])
    /\ \A i \in 1..Len(stages) : Enabled(stages[i])
    /\ pc = "done" =>
          SelectSeq(stages, LAMBDA st : st.name # "CLEANUP_AUDIO") = ExpectedStages

\* a completed run with audio extraction, both writers and two translated languages
C1_Witness ==
    /\ pc = "done"
    /\ Len(stages) = 8
    /\ stages[2].name = "EXTRACT_AUDIO"
    /\ stages[6].name = "WRITE_TRANSLATED_CAPTIONS"
    /\ stages[7].name = "WRITE_TRANSLATED_CAPTIONS"

----------------------------------------------------------------------------
(* Stage gate *)

\* C2: a call of download_video (extract_audio) that finds its artifact in place
\* neither invokes yt-dlp (ffmpeg) nor changes the filesystem, and between two
\* deletions of an artifact its tool is executed successfully at most once,
\* over any number of runs.
C2_StageGate ==
    [][ /\ (pc = "download" /\ exists(VIDEO_NAME)) =>
              (calls'.ytdlp = calls.ytdlp /\ files' = files)
        /\ (pc = "extract" /\ exists(AUDIO_NAME)) =>
              (calls'.ffmpeg = calls.ffmpeg /\ files' = files)
        /\ \A a \in {VIDEO_NAME, AUDIO_NAME} : execs'[a] <= 1 ]_vars

\* a second run that passed both gates after the first run executed both tools
C2_Witness ==
    /\ run = 2
    /\ pc = "recognize"
    /\ cfg.SAVE_AUDIO
    /\ execs[VIDEO_NAME] = 1 /\ execs[AUDIO_NAME] = 1
    /\ calls.ytdlp = 0 /\ calls.ffmpeg = 0

----------------------------------------------------------------------------
(* Caption files *)

\* content is the caption file of segs with the given text lines: one block of
\* four lines per segment, carrying the 1-based index, the formatted start and
\* end, the text, and a blank line
IsCaptionFile(content, segs, texts) ==
    /\ content # NoFile
    /\ Len(content) = 4 * Len(segs)
    /\ \A i \in 1..Len(segs) :
          /\ content[4 * i - 3] = Digits(i)
          /\ content[4 * i - 2] = timestamp(segs[i].start) \o Arrow \o timestamp(segs[i].end)
          /\ content[4 * i - 1] = texts[i]
          /\ content[4 * i] = <<>>

WriteStages ==
    {"WRITE_NATIVE_CAPTIONS", "WRITE_PRIMARY_CAPTIONS", "WRITE_TRANSLATED_CAPTIONS"}

Untouched(f) == f \notin written /\ files[f] = start[f]

----------------------------------------------------------------------------
(* Failures *)

\* C3: once the recognition engine has failed, the run is over in failure, no
\* caption file has been opened, created or changed, no WRITE_* stage and no DONE
\* has been entered.
C3_RecognitionFailure ==
    failure = "RecognitionError" =>
        /\ pc = "failed"
        /\ \A f \in CaptionFiles : Untouched(f)
        /\ StageNames(stages) \cap (WriteStages \cup {"CLEANUP_AUDIO", "DONE"}) = {}
        /\ stages[Len(stages)].name = "RECOGNIZE_TRANSLATE"

\* recognition failed in a run with every caption enabled, over older caption files
C3_Witness ==
    /\ failure = "RecognitionError"
    /\ cfg.SAVE_ZH_SUB /\ cfg.SAVE_EN_SUB
    /\ \E i \in 1..NLangs : cfg.SAVE_LANGS[i].enabled
    /\ start[ZH_SUB] = OldContent

\* the stage in which a collaborator failure arises
FailingStage(exc) ==
    CASE exc = "DownloadError" -> "DOWNLOAD"
      [] exc = "ExtractionError" -> "EXTRACT_AUDIO"
      [] exc = "RecognitionError" -> "RECOGNIZE_TRANSLATE"
      [] exc = "TranslationError" -> "WRITE_TRANSLATED_CAPTIONS"

CollaboratorErrors ==
    {"DownloadError", "ExtractionError", "RecognitionError", "TranslationError"}

\* C4: after any failure the run is over: the failing stage is the last stage
\* entered, CLEANUP_AUDIO and DONE are never entered, an audio file that was there
\* is still there, and after a failed DOWNLOAD or EXTRACT_AUDIO the recognition
\* engine has not been invoked and nothing has been written.
C4_FailureAborts ==
    failure # "none" =>
        /\ pc = "failed"
        /\ StageNames(stages) \cap {"CLEANUP_AUDIO", "DONE"} = {}
        /\ failure \in CollaboratorErrors =>
              stages[Len(stages)].name = FailingStage(failure)
        /\ start[AUDIO_NAME] # NoFile => files[AUDIO_NAME] # NoFile
        /\ failure \in {"DownloadError", "ExtractionError"} =>
              /\ calls.whisper = 0
              /\ segments = <<>>
              /\ written = {}

\* ffmpeg failed after a successful download, in a run that would have had
\* captions to write
C4_Witness ==
    /\ failure = "ExtractionError"
    /\ calls.ytdlp = 1 /\ calls.ffmpeg = 1
    /\ cfg.SAVE_ZH_SUB
    /\ Len(speech) > 0

NativeTexts(segs) ==
    [i \in 1..Len(segs) |->
        IF Has(segs[i], "original_text") THEN strip(segs[i].original_text)
        ELSE IF Has(segs[i], "text") THEN strip(segs[i].text)
        ELSE <<>>]

PrimaryTexts(segs) == [i \in 1..Len(segs) |-> strip(segs[i].text)]

TranslatedTexts(segs, dst) ==
    [i \in 1..Len(segs) |-> translate(strip(segs[i].text), "en", dst)]

\* C5: when the translation engine has failed on language X (item li of
\* SAVE_LANGS), the run is over in failure; the native and primary caption files,
\* if enabled, and the file of every enabled language before X hold what this run
\* wrote; no language after X has been processed.
C5_TranslationFailure ==
    failure = "TranslationError" =>
        /\ pc = "failed"
        /\ "DONE" \notin StageNames(stages)
        /\ cfg.SAVE_ZH_SUB =>
              ZH_SUB \in written /\ IsCaptionFile(files[ZH_SUB], segments, NativeTexts(segments))
        /\ cfg.SAVE_EN_SUB =>
              EN_SUB \in written /\ IsCaptionFile(files[EN_SUB], segments, PrimaryTexts(segments))
        /\ \A j \in 1..(li - 1) : cfg.SAVE_LANGS[j].enabled =>
              LET code == cfg.SAVE_LANGS[j].code
              IN  /\ lang_map[code] \in written
                  /\ IsCaptionFile(files[lang_map[code]], segments,
                                   TranslatedTexts(segments, code))
        /\ \A j \in (li + 1)..NLangs :
              LET code == cfg.SAVE_LANGS[j].code
              IN  /\ Stage("WRITE_TRANSLATED_CAPTIONS", code) \notin
                         {stages[k] : k \in 1..Len(stages)}
                  /\ \A k \in 1..Len(trCalls) : trCalls[k].dst # code
                  /\ code \in DOMAIN lang_map => Untouched(lang_map[code])

\* the engine failed on the second language, after the native, the primary and
\* the first language's captions of two segments were written
C5_Witness ==
    /\ failure = "TranslationError"
    /\ li = 2
    /\ cfg.SAVE_LANGS[1].enabled
    /\ cfg.SAVE_ZH_SUB /\ cfg.SAVE_EN_SUB
    /\ Len(segments) = 2
    /\ start[RU_SUB] = OldContent

----------------------------------------------------------------------------
(* Disabled outputs *)

\* C6: for every language mapped to false the translation engine is never
\* invoked with that target and its caption file is neither opened nor changed;
\* the native (primary) caption file is untouched when SAVE_ZH_SUB (SAVE_EN_SUB)
\* is false; with no language enabled, no secondary caption file is touched.
C6_DisabledOutputs ==
    /\ \A i \in 1..NLangs : ~cfg.SAVE_LANGS[i].enabled =>
          LET code == cfg.SAVE_LANGS[i].code
          IN  /\ \A k \in 1..Len(trCalls) : trCalls[k].dst # code
              /\ code \in DOMAIN lang_map => Untouched(lang_map[code])
    /\ ~cfg.SAVE_ZH_SUB => Untouched(ZH_SUB)
    /\ ~cfg.SAVE_EN_SUB => Untouched(EN_SUB)
    /\ (\A i \in 1..NLangs : ~cfg.SAVE_LANGS[i].enabled) =>
          \A f \in {RU_SUB, FR_SUB, ES_SUB, DE_SUB} : Untouched(f)

\* a completed run with one language disabled and another enabled and written,
\* over older caption files, the native captions disabled
C6_Witness ==
    /\ pc = "done"
    /\ NLangs = 2
    /\ ~cfg.SAVE_LANGS[1].enabled /\ cfg.SAVE_LANGS[1].code \in DOMAIN lang_map
    /\ cfg.SAVE_LANGS[2].enabled /\ lang_map[cfg.SAVE_LANGS[2].code] \in written
    /\ ~cfg.SAVE_ZH_SUB
    /\ start[ZH_SUB] = OldContent
    /\ Len(segments) = 2

----------------------------------------------------------------------------
(* The subtitle writers *)

SelectedTexts(segs, key) == [i \in 1..Len(segs) |-> strip(segs[i][key])]

\* C7: when save_subtitles returns, the file consists of exactly one block per
\* segment, block i carrying index i, the formatted start and end of segment i,
\* segment i's trimmed text and a blank line, whatever the file held before.
C7_SaveSubtitles ==
    (pc = "returned" /\ last.fn = "save_subtitles") =>
        IsCaptionFile(files[last.file], segments, SelectedTexts(segments, last.key))

\* save_subtitles returned for two segments, the first with text to trim, over
\* a file that held older lines
C7_Witness ==
    /\ pc = "returned"
    /\ last.fn = "save_subtitles"
    /\ last.key = "text"
    /\ last.before = OldContent
    /\ Len(segments) = 2
    /\ strip(segments[1].text) # segments[1].text

FallbackTexts(segs, key) ==
    [i \in 1..Len(segs) |-> strip(Get(segs[i], key, Get(segs[i], "text", <<>>)))]

\* C8: save_subtitles never fails on a missing text field: it writes one block
\* per segment, with the primary text where the selected field is absent and an
\* empty text line where that is absent too.
C8_MissingFieldFallback ==
    last.fn = "save_subtitles" =>
        /\ ~last.raised
        /\ IsCaptionFile(files[last.file], segments, FallbackTexts(segments, last.key))

\* C9: once a run with native captions enabled is past Step 2, the native caption
\* file was written by it and holds one block per recognized segment, in order,
\* the text of block i being segment i's original_text if present, else its text,
\* else empty, trimmed.
C9_NativeCaptions ==
    /\ (cfg.SAVE_ZH_SUB /\ pc \in {"en", "langs", "cleanup", "done"}) => ZH_SUB \in written
    /\ ZH_SUB \in written =>
          IsCaptionFile(files[ZH_SUB], segments, NativeTexts(segments))

\* the native captions of two segments, one with original_text and one with
\* text alone, written over an older file
C9_Witness ==
    /\ ZH_SUB \in written
    /\ start[ZH_SUB] = OldContent
    /\ Len(segments) = 2
    /\ Has(segments[1], "original_text")
    /\ ~Has(segments[2], "original_text") /\ Has(segments[2], "text")

\* the block texts of a translated file: the engine's answers, call by call
Answers(log) == [k \in 1..Len(log) |-> translate(log[k].text, log[k].src, log[k].dst)]

\* C10 as stated: when translate_and_save returns, the engine was invoked once
\* per segment, the k-th call on segment k's text with the given codes, and the
\* file has one block per segment with the k-th call's answer.
C10_CallsOnText ==
    (pc = "returned" /\ last.fn = "translate_and_save") =>
        /\ Len(last.log) = Len(segments)
        /\ \A k \in 1..Len(segments) :
              last.log[k] = [text |-> segments[k].text, src |-> "en", dst |-> last.dst]
        /\ IsCaptionFile(files[last.file], segments, Answers(last.log))

\* C10, amended: when translate_and_save returns, the engine was invoked once
\* per segment, the k-th call on segment k's text trimmed of leading and
\* trailing whitespace, with the given codes, and the file has one block per
\* segment, block k carrying index k, the formatted start and end of segment k
\* and the k-th call's answer.
C10_CallsOnTrimmedText ==
    (pc = "returned" /\ last.fn = "translate_and_save") =>
        /\ Len(last.log) = Len(segments)
        /\ \A k \in 1..Len(segments) :
              last.log[k] = [text |-> strip(segments[k].text), src |-> "en",
                             dst |-> last.dst]
        /\ IsCaptionFile(files[last.file], segments, Answers(last.log))

\* translate_and_save returned for two segments, the first with text to trim
C10_Witness ==
    /\ pc = "returned"
    /\ last.fn = "translate_and_save"
    /\ Len(segments) = 2
    /\ strip(segments[1].text) # segments[1].text
    /\ last.before = OldContent

----------------------------------------------------------------------------
(* One formatting of a segment's time line: timestamp(seg['start']) and   *)
(* timestamp(seg['end']), as lines 99 and 111 call it.                    *)

\* inputs in ticks just below: -1 h, -1.5 s, 0 s, 1 min, 1 h, 3661.25 s, 10 h, 25 h
StampBases == {-36000005, -15000, -5, 599990, 35999990, 36612495, 359999990, 899999990}

StampInputs == {base + d : base \in StampBases, d \in 0..MaxDelta}

InitTimestamp ==
    /\ cfg = [SAVE_AUDIO |-> TRUE, SAVE_ZH_SUB |-> TRUE, SAVE_EN_SUB |-> TRUE,
              SAVE_LANGS |-> <<>>]
    /\ files = [p \in Paths |-> NoFile]
    /\ start = files
    /\ speech = <<>>
    /\ segments \in {<<[start |-> a, end |-> b]>> : a \in StampInputs, b \in StampInputs}
    /\ pc = "call"
    /\ li = 1
    /\ stages = <<>>
    /\ written = {}
    /\ calls = NoCalls
    /\ trCalls = <<>>
    /\ last = NoLast
    /\ execs = [a \in {VIDEO_NAME, AUDIO_NAME} |-> 0]
    /\ failure = "none"
    /\ run = 1
    /\ prev = "none"

\* timestamp(sec) for both ends of the segment, lines 56-61; the direction of a
\* half-millisecond tie depends on the binary value of the float
call_timestamp ==
    /\ pc = "call"
    /\ \E tieStart \in BOOLEAN, tieEnd \in BOOLEAN :
          /\ segments[1].start = segments[1].end => tieStart = tieEnd
          /\ last' = [NoLast EXCEPT !.fn = "timestamp",
                                    !.log = <<Stamp(segments[1].start, tieStart),
                                              Stamp(segments[1].end, tieEnd)>>]
    /\ pc' = "returned"
    /\ UNCHANGED <<cfg, prev, start, speech, files, li, segments, stages, written, calls,
                   trCalls, execs, failure, run>>

NextTimestamp == call_timestamp

SpecTimestamp == InitTimestamp /\ [][NextTimestamp]_vars

----------------------------------------------------------------------------
(* Reading a timestamp back *)

IsDigit(c) == \E d \in 0..9 : DigitChar(d) = c

RECURSIVE NumVal(_)
NumVal(s) ==
    IF s = <<>> THEN 0
    ELSE NumVal(SubSeq(s, 1, Len(s) - 1)) * 10 + (CHOOSE d \in 0..9 : DigitChar(d) = s[Len(s)])

\* ^\d{2,}:\d{2}:\d{2},\d{3}$
HasShape(out) ==
    LET n == Len(out)
    IN  /\ n >= 12
        /\ out[n - 9] = ":" /\ out[n - 6] = ":" /\ out[n - 3] = ","
        /\ \A i \in (1..n) \ {n - 9, n - 6, n - 3} : IsDigit(out[i])

HoursOf(out) == NumVal(SubSeq(out, 1, Len(out) - 10))
MinutesOf(out) == NumVal(SubSeq(out, Len(out) - 8, Len(out) - 7))
SecondsOf(out) == NumVal(SubSeq(out, Len(out) - 5, Len(out) - 4))
MillisOf(out) == NumVal(SubSeq(out, Len(out) - 2, Len(out)))

\* the time a well-shaped timestamp denotes, in milliseconds
DenotedMs(out) == ((HoursOf(out) * 60 + MinutesOf(out)) * 60 + SecondsOf(out)) * 1000 + MillisOf(out)

\* the calls made: <<input in ticks, returned string>>
Stamped ==
    IF last.fn = "timestamp"
    THEN {<<segments[1].start, last.log[1]>>, <<segments[1].end, last.log[2]>>}
    ELSE {}

\* C14 (as stated): for t >= 0 the returned string denotes floor(t in ms), never
\* a time later than t.
C14_Truncates ==
    \A c \in Stamped : c[1] >= 0 =>
        /\ DenotedMs(c[2]) = c[1] \div TicksPerMs
        /\ DenotedMs(c[2]) * TicksPerMs <= c[1]

\* C14 (amended): for t >= 0 the returned string denotes t rounded to the nearest
\* millisecond: it is within half a millisecond of t, before or after it.
C14_RoundsToNearest ==
    \A c \in Stamped : c[1] >= 0 =>
        LET d == DenotedMs(c[2]) * TicksPerMs - c[1]
        IN  /\ 2 * d <= TicksPerMs
            /\ 2 * (0 - d) <= TicksPerMs

\* 59.9996 s was formatted and denotes a later time, 60.000 s
C14_Witness ==
    /\ last.fn = "timestamp"
    /\ segments[1].start = 599996
    /\ DenotedMs(last.log[1]) * TicksPerMs > segments[1].start

\* C15: for t >= 0 the returned string has the shape HH:MM:SS,mmm with at least
\* two hour digits; for t1 <= t2 timestamp(t1) denotes a time not later than
\* timestamp(t2); timestamp(0) = 00:00:00,000 and timestamp(3661.25) = 01:01:01,250.
C15_ShapeAndOrder ==
    /\ \A c \in Stamped : c[1] >= 0 =>
          /\ HasShape(c[2])
          /\ c[1] = 0 => c[2] = <<"0","0",":","0","0",":","0","0",",","0","0","0">>
          /\ c[1] = 36612500 => c[2] = <<"0","1",":","0","1",":","0","1",",","2","5","0">>
    /\ \A c1 \in Stamped, c2 \in Stamped :
          (c1[1] >= 0 /\ c1[1] <= c2[1]) => DenotedMs(c1[2]) <= DenotedMs(c2[2])

\* 0 s and 3661.25 s were formatted in one call
C15_Witness ==
    /\ last.fn = "timestamp"
    /\ segments[1].start = 0
    /\ segments[1].end = 36612500

\* C16: a call of timestamp with negative seconds raises and returns no string.
C16_NegativeRejected ==
    (last.fn = "timestamp" /\ (segments[1].start < 0 \/ segments[1].end < 0)) =>
        /\ last.raised
        /\ last.log = <<>>

\* C19: for t >= 0 the fields of the returned string are a clock reading:
\* minutes 00..59, seconds 00..59, milliseconds 000..999.
C19_ValidClock ==
    \A c \in Stamped : c[1] >= 0 =>
        /\ MinutesOf(c[2]) \in 0..59
        /\ SecondsOf(c[2]) \in 0..59
        /\ MillisOf(c[2]) \in 0..999

----------------------------------------------------------------------------
(* Languages of the configuration *)

\* the caption file name derived from a language code: <project>_<code>.srt
DerivedName(code) ==
    CASE code = "ru" -> RU_SUB
      [] code = "fr" -> FR_SUB
      [] code = "es" -> ES_SUB
      [] code = "de" -> DE_SUB
      [] code = "it" -> "my_video_it.srt"

\* C11: a run that ends without a collaborator failing (on a transcript whose
\* segments all carry text) ends at DONE, having written the caption file of
\* every language code the configuration maps to true, whatever the code.
C11_EveryEnabledLanguage ==
    (/\ pc \in {"done", "failed"}
     /\ failure \notin CollaboratorErrors
     /\ \A i \in 1..Len(speech) : Has(speech[i], "text")) =>
        /\ pc = "done"
        /\ \A i \in 1..NLangs : cfg.SAVE_LANGS[i].enabled =>
              DerivedName(cfg.SAVE_LANGS[i].code) \in written

----------------------------------------------------------------------------
(* The audio artifact *)

\* C12: the audio file disappears only in Step 5 of a run with SAVE_AUDIO false,
\* in the step that enters CLEANUP_AUDIO and then DONE, after all caption stages;
\* CLEANUP_AUDIO is entered only there; with SAVE_AUDIO true an audio file that
\* is there stays and is there at DONE; with SAVE_AUDIO false there is none at DONE.
C12_AudioCleanup ==
    [][ /\ (exists(AUDIO_NAME) /\ files'[AUDIO_NAME] = NoFile) =>
              /\ pc = "cleanup" /\ pc' = "done"
              /\ ~cfg.SAVE_AUDIO
              /\ stages' = stages \o <<Stage("CLEANUP_AUDIO", ""), Stage("DONE", "")>>
        /\ ("CLEANUP_AUDIO" \in StageNames(stages') \ StageNames(stages)) =>
              /\ exists(AUDIO_NAME) /\ files'[AUDIO_NAME] = NoFile
              /\ \A k \in 1..Len(stages) : stages[k].name \notin {"CLEANUP_AUDIO", "DONE"}
        /\ (cfg.SAVE_AUDIO /\ exists(AUDIO_NAME)) => files'[AUDIO_NAME] # NoFile
        /\ pc' = "done" => (cfg.SAVE_AUDIO <=> files'[AUDIO_NAME] # NoFile) ]_vars

\* a completed run that wrote captions and removed the audio file it had found
C12_Witness ==
    /\ pc = "done"
    /\ "CLEANUP_AUDIO" \in StageNames(stages)
    /\ start[AUDIO_NAME] # NoFile /\ files[AUDIO_NAME] = NoFile
    /\ Cardinality(written) >= 3

\* C17: whenever main is about to invoke the recognition engine, the audio file
\* it reads is there.
C17_AudioPresentAtRecognition == pc = "recognize" => exists(AUDIO_NAME)

----------------------------------------------------------------------------
(* A second run *)

\* the caption files the configuration asks for
EnabledCaptions ==
    (IF cfg.SAVE_ZH_SUB THEN {ZH_SUB} ELSE {})
    \cup (IF cfg.SAVE_EN_SUB THEN {EN_SUB} ELSE {})
    \cup {DerivedName(cfg.SAVE_LANGS[i].code) : i \in {j \in 1..NLangs : cfg.SAVE_LANGS[j].enabled}}

\* C13: in a run started after a completed run, yt-dlp and ffmpeg are not
\* invoked and neither DOWNLOAD nor EXTRACT_AUDIO fails; the recognition engine
\* is invoked exactly once, and a run that completes has opened for writing every
\* enabled caption file, each of which was there already.
C13_Rerun ==
    (run > 1 /\ prev = "done") =>
        /\ calls.ytdlp = 0 /\ calls.ffmpeg = 0
        /\ failure \notin {"DownloadError", "ExtractionError"}
        /\ calls.whisper = (IF pc \in {"download", "extract", "recognize"} THEN 0 ELSE 1)
        /\ pc = "done" =>
              \A f \in EnabledCaptions : f \in written /\ start[f] # NoFile

\* a second complete run, after a complete first run, with three captions enabled
C13_Witness ==
    /\ run = 2 /\ prev = "done"
    /\ pc = "done"
    /\ cfg.SAVE_AUDIO
    /\ Cardinality(EnabledCaptions) >= 3
    /\ Len(segments) = 2

----------------------------------------------------------------------------
(* The translation fan-out on failure *)

\* C18: after a call of translate_and_save that raised, the target file is as
\* it was before the call (absent, or with its old content) and was not opened;
\* after a call that returned it holds all the blocks: never a strict prefix.
C18_AllOrNothing ==
    last.fn = "translate_and_save" =>
        /\ last.raised =>
              /\ files[last.file] = last.before
              /\ last.file \notin written
        /\ ~last.raised =>
              IsCaptionFile(files[last.file], segments, Answers(last.log))
        /\ \A f \in CaptionFiles \ {last.file} : files[f] = start[f]

\* the engine failed on the second segment, the first being translated, over an
\* older file
C18_Witness ==
    /\ last.fn = "translate_and_save"
    /\ last.raised
    /\ failure = "TranslationError"
    /\ Len(last.log) = 2
    /\ last.before = OldContent

====
